---- MODULE Spec2Model ----
(***************************************************************************)
(* Model of process_stores.py: the sitemap URL extractor, the page fetcher,*)
(* the field extractor, the semaphore-bounded dispatcher and the final     *)
(* filter-and-sort of main().                                              *)
(*                                                                         *)
(* Text is a sequence of code points.  An optional value (Python's None or *)
(* a value) is a record [some, text]; a task result is [some, data].       *)
(***************************************************************************)
EXTENDS Integers, Sequences, FiniteSets

VARIABLES
    store_urls,       \* main: list(urls) handed to the dispatcher
    pc,               \* per task: waiting | fetching | parsing | done | raised | cancelled
    sem_value,        \* semaphore._value: the free permits
    holders,          \* tasks inside the "async with semaphore" block
    gets,             \* per task: number of session.get calls issued
    response,         \* per task: what the request ended with
    html,             \* per task: value returned by fetch_store_page
    task_result,      \* per task: value returned by scrape_with_semaphore
    printed,          \* console diagnostics emitted by the pipelines
    main_pc,          \* main: gather | saved | no_data | aborted
    results,          \* main: the list gather returned
    all_stores_data,  \* main: the list handed to json.dump
    file_paths,       \* parse_sitemaps: its argument
    file_idx,         \* parse_sitemaps: position of the for loop
    urls,             \* parse_sitemaps: the set being built
    sm_pc             \* parse_sitemaps: idle | loop | returned

dispatch_vars == <<store_urls, pc, sem_value, holders, gets, response, html,
                   task_result, printed, main_pc, results, all_stores_data>>
sitemap_vars == <<file_paths, file_idx, urls, sm_pc>>
vars == <<dispatch_vars, sitemap_vars>>

----------------------------------------------------------------------------
(* Bounds.  The source sets CONCURRENCY_LIMIT to 50; the model scales it    *)
(* down and schedules a batch of one URL more than that.                    *)
CONCURRENCY_LIMIT == 1
MaxFiles == 3

\* The URLs of the batch, as numbers, and one task per position of store_urls.
BatchUrls == 1..(CONCURRENCY_LIMIT + 1)
Tasks == 1..Cardinality(BatchUrls)

----------------------------------------------------------------------------
(* Text and optional values *)
SP == 32

NoneText == [some |-> FALSE, text |-> <<>>]
Some(t) == [some |-> TRUE, text |-> t]

\* Python truthiness of an optional string: None and '' are falsy.
Truthy(o) == o.some /\ o.text # <<>>

RECURSIVE LStrip(_)
LStrip(t) == IF t # <<>> /\ Head(t) = SP THEN LStrip(Tail(t)) ELSE t

RECURSIVE RStrip(_)
RStrip(t) ==
    IF t # <<>> /\ t[Len(t)] = SP THEN RStrip(SubSeq(t, 1, Len(t) - 1)) ELSE t

\* str.strip()
Strip(t) == RStrip(LStrip(t))

\* Python's str comparison: code point by code point, a proper prefix first.
LexLess(a, b) ==
    \E i \in 1..(Len(a) + 1) :
        /\ \A j \in 1..(i - 1) : j <= Len(b) /\ a[j] = b[j]
        /\ \/ i = Len(a) + 1 /\ Len(b) >= i
           \/ i <= Len(a) /\ i <= Len(b) /\ a[i] < b[i]

LexLeq(a, b) == a = b \/ LexLess(a, b)

----------------------------------------------------------------------------
(* Field extractor: parse_store_details *)

\* A page as BeautifulSoup sees it: each looked-up element is absent or
\* carries its raw text; hours_rows are the <tr> of the hours table (its
\* number of <td>, the first cell's text, the week-hours span's text);
\* services are the raw texts of "div.service > div" in the desktop block.
Str_b == <<98>>
Str_B_padded == <<SP, 66, SP>>
Str_blank == <<SP, SP>>
Str_addr == <<49>>
Str_phone == <<48, 56>>
Str_maps == <<109>>
Str_Mon == <<77>>
Str_Tue == <<84>>
Str_hours == <<57>>
Str_Deli == <<68>>
Str_Bakery == <<66>>

BarePage(name) ==
    [blank |-> FALSE, name |-> name,
     address_line_1 |-> NoneText, address_line_2 |-> NoneText,
     phone |-> NoneText, directions |-> NoneText,
     hours_rows |-> <<>>, services |-> <<>>]

FullPage(name) ==
    [blank |-> FALSE, name |-> name,
     address_line_1 |-> Some(Str_addr), address_line_2 |-> Some(<<SP>> \o Str_addr),
     phone |-> Some(Str_phone), directions |-> Some(Str_maps),
     hours_rows |-> << [ncols |-> 2, day |-> Str_Mon, time |-> Some(Str_hours)],
                       [ncols |-> 3, day |-> Str_Tue, time |-> Some(Str_hours)],
                       [ncols |-> 2, day |-> Str_Tue, time |-> NoneText] >>,
     services |-> << Str_Deli, Str_blank, Str_Bakery >>]

EmptyPage == [BarePage(NoneText) EXCEPT !.blank = TRUE]

\* The response bodies the server may send.
Pages ==
    { FullPage(Some(Str_b)),          \* every field present
      BarePage(Some(Str_B_padded)),   \* only a name, padded with spaces
      FullPage(Some(Str_blank)),      \* name element holding only whitespace
      FullPage(NoneText),             \* no name element
      EmptyPage }                     \* an empty body

NoHtml == [some |-> FALSE, page |-> EmptyPage]
SomeHtml(page) == [some |-> TRUE, page |-> page]

\* "if html" / "if not html_content": None and the empty string are falsy.
HtmlTruthy(h) == h.some /\ ~h.page.blank

get_text_nostrip(element) == IF element.some THEN Some(element.text) ELSE NoneText

\* get_text: element.text.strip() if element else None
get_text(element) == IF element.some THEN Some(Strip(element.text)) ELSE NoneText

\* The hours dict as a set of [day, time] entries, one per key; a later
\* assignment to the same key replaces the earlier one.
RECURSIVE ParseHours(_, _, _)
ParseHours(rows, i, hours) ==
    IF i > Len(rows) THEN hours
    ELSE LET row == rows[i]
             day == get_text(Some(row.day))
             time == get_text(row.time)
         IN  IF row.ncols = 2 /\ Truthy(day) /\ Truthy(time)
             THEN ParseHours(rows, i + 1,
                      {h \in hours : h.day # day.text}
                          \cup {[day |-> day.text, time |-> time.text]})
             ELSE ParseHours(rows, i + 1, hours)

\* services.append(service_name) for each non-empty stripped text
RECURSIVE CollectServices(_, _)
CollectServices(elems, i) ==
    IF i > Len(elems) THEN <<>>
    ELSE LET service_name == get_text(Some(elems[i]))
         IN  (IF Truthy(service_name) THEN <<service_name.text>> ELSE <<>>)
                 \o CollectServices(elems, i + 1)

\* Stable insertion of x into the sorted sequence s (after its equals).
RECURSIVE InsertText(_, _)
InsertText(x, s) ==
    IF s = <<>> THEN <<x>>
    ELSE IF LexLess(x, Head(s)) THEN <<x>> \o s
    ELSE <<Head(s)>> \o InsertText(x, Tail(s))

\* sorted(services)
RECURSIVE SortedTexts(_)
SortedTexts(s) ==
    IF s = <<>> THEN <<>>
    ELSE InsertText(s[Len(s)], SortedTexts(SubSeq(s, 1, Len(s) - 1)))

EmptyStore ==
    [url |-> 0, name |-> NoneText,
     address_line_1 |-> NoneText, address_line_2 |-> NoneText,
     phone |-> NoneText, directions_url |-> NoneText,
     hours |-> {}, services |-> <<>>]

NoneResult == [some |-> FALSE, data |-> EmptyStore]
SomeResult(store_data) == [some |-> TRUE, data |-> store_data]

\* store_data as built by lines 58-99
StoreData(page, url) ==
    [url |-> url,
     name |-> get_text(page.name),
     address_line_1 |-> get_text(page.address_line_1),
     address_line_2 |-> get_text(page.address_line_2),
     phone |-> get_text(page.phone),
     directions_url |-> page.directions,
     hours |-> ParseHours(page.hours_rows, 1, {}),
     services |-> SortedTexts(CollectServices(page.services, 1))]

\* "if not store_data.get('name')"
NameMissing(store_data) == ~Truthy(store_data.name)

parse_store_details(html_content, url) ==
    IF ~HtmlTruthy(html_content) THEN NoneResult
    ELSE LET store_data == StoreData(html_content.page, url)
         IN  IF NameMissing(store_data) THEN NoneResult
             ELSE SomeResult(store_data)

\* The diagnostic parse_store_details prints, if any.
ParseDiagnostics(html_content, url) ==
    IF HtmlTruthy(html_content) /\ NameMissing(StoreData(html_content.page, url))
    THEN {<<"no_name", url>>} ELSE {}

----------------------------------------------------------------------------
(* Page fetcher: fetch_store_page *)

\* How one GET can end.
ResponseKinds ==
    { "status_2xx",        \* a success status and a body
      "status_3xx",        \* a 3xx status handed to the caller (e.g. 304)
      "status_4xx_5xx",    \* raise_for_status raises ClientResponseError
      "connection_error",  \* ClientConnectorError
      "dns_failure",       \* ClientConnectorDNSError
      "socket_timeout",    \* connect/read timeout: ServerTimeoutError
      "total_timeout" }    \* the session's total timeout: asyncio.TimeoutError

NoResponse == "none"

\* session.get raised before a response was available.
TransportFailure(kind) ==
    kind \in {"connection_error", "dns_failure", "socket_timeout", "total_timeout"}

\* response.raise_for_status(): raises for a status of 400 and above.
RaiseForStatus(kind) == kind = "status_4xx_5xx"

RaisesException(kind) == TransportFailure(kind) \/ RaiseForStatus(kind)

\* "except aiohttp.ClientError": asyncio.TimeoutError is not a ClientError.
IsClientError(kind) ==
    kind \in {"status_4xx_5xx", "connection_error", "dns_failure", "socket_timeout"}

----------------------------------------------------------------------------
(* Result finalizer: lines 142-151 of main *)

\* [store for store in results if store]
RECURSIVE FilterStores(_)
FilterStores(rs) ==
    IF rs = <<>> THEN <<>>
    ELSE (IF Head(rs).some THEN <<Head(rs).data>> ELSE <<>>) \o FilterStores(Tail(rs))

\* key=lambda x: x.get('name', '')
SortKey(store) == IF store.name.some THEN store.name.text ELSE <<>>

RECURSIVE InsertStore(_, _)
InsertStore(x, s) ==
    IF s = <<>> THEN <<x>>
    ELSE IF LexLess(SortKey(x), SortKey(Head(s))) THEN <<x>> \o s
    ELSE <<Head(s)>> \o InsertStore(x, Tail(s))

RECURSIVE StableSortByName(_)
StableSortByName(s) ==
    IF s = <<>> THEN <<>>
    ELSE InsertStore(s[Len(s)], StableSortByName(SubSeq(s, 1, Len(s) - 1)))

Unsorted(stores) == stores

\* all_stores_data.sort(key=...): list.sort is stable
SortByName(stores) == StableSortByName(stores)

Finalize(rs) == SortByName(FilterStores(rs))

----------------------------------------------------------------------------
(* Bounded dispatcher: scrape_with_semaphore, scrape_and_parse_store, main *)

\* list(urls): the URLs are distinct; the order of a set's iteration is not
\* fixed, so every order may occur.
UrlOrders ==
    { f \in [Tasks -> BatchUrls] : \A i, j \in Tasks : f[i] = f[j] => i = j }

InitDispatch ==
    /\ store_urls \in UrlOrders
    /\ pc = [p \in Tasks |-> "waiting"]
    /\ sem_value = CONCURRENCY_LIMIT
    /\ holders = {}
    /\ gets = [p \in Tasks |-> 0]
    /\ response = [p \in Tasks |-> NoResponse]
    /\ html = [p \in Tasks |-> NoHtml]
    /\ task_result = [p \in Tasks |-> NoneResult]
    /\ printed = {}
    /\ main_pc = "gather"
    /\ results = <<>>
    /\ all_stores_data = <<>>

AlwaysFree == TRUE

\* Semaphore.acquire proceeds without waiting when a permit is free.
PermitFree == sem_value > 0

\* Semaphore.release, on leaving the "async with" block of task p.
ReleasePermit(p) ==
    /\ sem_value' = sem_value + 1
    /\ holders' = holders \ {p}

\* Leaving "async with semaphore" (return or exception): __aexit__ releases.
ExitSemaphore(p) == ReleasePermit(p)

ExitSemaphoreEarly(p) == ReleasePermit(p)

\* A fetch returned text: the task stays inside "async with semaphore" while
\* scrape_and_parse_store goes on to parse_store_details.
ContinueToParse(p) == UNCHANGED <<sem_value, holders>>

\* Entering "async with semaphore", then session.get in fetch_store_page.
Acquire(p) ==
    /\ main_pc = "gather"
    /\ pc[p] = "waiting"
    /\ PermitFree
    /\ sem_value' = sem_value - 1
    /\ holders' = holders \cup {p}
    /\ gets' = [gets EXCEPT ![p] = @ + 1]
    /\ pc' = [pc EXCEPT ![p] = "fetching"]
    /\ UNCHANGED <<store_urls, response, html, task_result, printed, main_pc,
                   results, all_stores_data>>

\* The GET ends without an exception: fetch_store_page returns the text.
\* An empty text fails "if html" and the pipeline returns None at once.
FetchReturnsText(p, kind, page) ==
    /\ pc[p] = "fetching"
    /\ ~RaisesException(kind)
    /\ response' = [response EXCEPT ![p] = kind]
    /\ html' = [html EXCEPT ![p] = SomeHtml(page)]
    /\ IF HtmlTruthy(SomeHtml(page))
       THEN /\ pc' = [pc EXCEPT ![p] = "parsing"]
            /\ ContinueToParse(p)
       ELSE /\ pc' = [pc EXCEPT ![p] = "done"]
            /\ ExitSemaphore(p)
    /\ UNCHANGED <<store_urls, gets, task_result, printed, main_pc, results,
                   all_stores_data>>

\* The GET raises a ClientError: the handler prints it and returns None;
\* scrape_and_parse_store returns None and the semaphore is released.
FetchFailsCaught(p, kind) ==
    /\ pc[p] = "fetching"
    /\ RaisesException(kind)
    /\ IsClientError(kind)
    /\ response' = [response EXCEPT ![p] = kind]
    /\ printed' = printed \cup {<<"fetch_error", store_urls[p]>>}
    /\ pc' = [pc EXCEPT ![p] = "done"]
    /\ ExitSemaphore(p)
    /\ UNCHANGED <<store_urls, gets, html, task_result, main_pc, results,
                   all_stores_data>>

\* The GET raises an exception the handler does not catch: it leaves
\* fetch_store_page, scrape_and_parse_store and the "async with" block
\* (which releases the permit) and becomes the task's exception.
FetchRaises(p, kind) ==
    /\ pc[p] = "fetching"
    /\ RaisesException(kind)
    /\ ~IsClientError(kind)
    /\ response' = [response EXCEPT ![p] = kind]
    /\ pc' = [pc EXCEPT ![p] = "raised"]
    /\ ExitSemaphore(p)
    /\ UNCHANGED <<store_urls, gets, html, task_result, printed, main_pc,
                   results, all_stores_data>>

\* parse_store_details runs inside "async with semaphore"; its return value
\* is the task's result and the semaphore is released on the way out.
Parse(p) ==
    /\ pc[p] = "parsing"
    /\ task_result' = [task_result EXCEPT ![p] = parse_store_details(html[p], store_urls[p])]
    /\ printed' = printed \cup ParseDiagnostics(html[p], store_urls[p])
    /\ pc' = [pc EXCEPT ![p] = "done"]
    /\ ExitSemaphore(p)
    /\ UNCHANGED <<store_urls, gets, response, html, main_pc, results,
                   all_stores_data>>

AnyDone == \E p \in Tasks : pc[p] = "done"

\* asyncio.gather(*tasks) returns once every task has returned.
GatherDone == \A p \in Tasks : pc[p] = "done"

\* gather's list keeps the order of the tasks, whatever their completion order.
GatherResults == [i \in Tasks |-> task_result[i]]

\* main, from the return of gather to its end: filter, early return when
\* nothing was scraped, else sort and save.
FinishBatch ==
    /\ main_pc = "gather"
    /\ GatherDone
    /\ results' = GatherResults
    /\ IF FilterStores(GatherResults) = <<>>
       THEN /\ all_stores_data' = <<>>
            /\ main_pc' = "no_data"
       ELSE /\ all_stores_data' = Finalize(GatherResults)
            /\ main_pc' = "saved"
    /\ UNCHANGED <<store_urls, pc, sem_value, holders, gets, response, html,
                   task_result, printed>>

\* A task's exception is re-raised by gather in main, which leaves without
\* filtering, sorting or saving; asyncio.run then cancels the tasks that are
\* still suspended (waiting for a permit or for a response).
Suspended(p) == pc[p] \in {"waiting", "fetching"}

AbortBatch ==
    /\ main_pc = "gather"
    /\ \E p \in Tasks : pc[p] = "raised"
    /\ main_pc' = "aborted"
    /\ pc' = [p \in Tasks |-> IF Suspended(p) THEN "cancelled" ELSE pc[p]]
    /\ holders' = {p \in holders : ~Suspended(p)}
    /\ sem_value' = sem_value + Cardinality({p \in holders : Suspended(p)})
    /\ UNCHANGED <<store_urls, gets, response, html, task_result, printed,
                   results, all_stores_data>>

SitemapIdle ==
    /\ file_paths = <<>>
    /\ file_idx = 1
    /\ urls = {}
    /\ sm_pc = "idle"

Init == InitDispatch /\ SitemapIdle

Next ==
    \/ \E p \in Tasks : Acquire(p) /\ UNCHANGED sitemap_vars
    \/ \E p \in Tasks, kind \in ResponseKinds, page \in Pages :
           FetchReturnsText(p, kind, page) /\ UNCHANGED sitemap_vars
    \/ \E p \in Tasks, kind \in ResponseKinds :
           FetchFailsCaught(p, kind) /\ UNCHANGED sitemap_vars
    \/ \E p \in Tasks, kind \in ResponseKinds :
           FetchRaises(p, kind) /\ UNCHANGED sitemap_vars
    \/ \E p \in Tasks : Parse(p) /\ UNCHANGED sitemap_vars
    \/ FinishBatch /\ UNCHANGED sitemap_vars
    \/ AbortBatch /\ UNCHANGED sitemap_vars

Spec == Init /\ [][Next]_vars

----------------------------------------------------------------------------
(* URL extractor: parse_sitemaps *)

Str_u == <<117>>
Str_u_padded == <<SP, 117, SP>>
Str_v == <<118>>
Str_w == <<119>>

\* A <url> element: its <loc> child may be absent, and a <loc> with no
\* content has text None.
NoLoc == [loc |-> FALSE, text |-> NoneText]
Loc(text) == [loc |-> TRUE, text |-> text]

\* The files glob may hand over.  A malformed file is one ET.parse rejects
\* (its <url> entries are what a lenient reader would have seen).
SitemapFiles ==
    { [state |-> "ok", entries |-> << Loc(Some(Str_u_padded)), Loc(Some(Str_v)) >>],
      [state |-> "ok", entries |-> << Loc(Some(Str_u)), NoLoc, Loc(NoneText) >>],
      [state |-> "ok", entries |-> << Loc(Some(Str_blank)), Loc(Some(Str_v)) >>],
      [state |-> "malformed", entries |-> << Loc(Some(Str_w)) >>],
      [state |-> "missing", entries |-> <<>>] }

PathLists == UNION { [1..n -> SitemapFiles] : n \in 0..MaxFiles }

InitSitemaps ==
    /\ file_paths \in PathLists
    /\ file_idx = 1
    /\ urls = {}
    /\ sm_pc = "loop"

\* "if loc_element is not None and loc_element.text"
LocAccepted(e) == e.loc /\ Truthy(e.text)

\* The URLs one well-formed file adds: loc_element.text.strip()
FileUrls(file) ==
    { Strip(file.entries[i].text.text) :
        i \in { j \in 1..Len(file.entries) : LocAccepted(file.entries[j]) } }

\* One iteration of the for loop over a file ET.parse accepts.
ReadSitemap ==
    /\ sm_pc = "loop"
    /\ file_idx <= Len(file_paths)
    /\ file_paths[file_idx].state = "ok"
    /\ urls' = urls \cup FileUrls(file_paths[file_idx])
    /\ file_idx' = file_idx + 1
    /\ UNCHANGED <<file_paths, sm_pc>>

\* One iteration over a file that raises ParseError or FileNotFoundError:
\* the handler prints and the loop goes on.
SkipSitemap ==
    /\ sm_pc = "loop"
    /\ file_idx <= Len(file_paths)
    /\ file_paths[file_idx].state \in {"malformed", "missing"}
    /\ file_idx' = file_idx + 1
    /\ UNCHANGED <<file_paths, urls, sm_pc>>

\* return list(urls)
ReturnUrls ==
    /\ sm_pc = "loop"
    /\ file_idx > Len(file_paths)
    /\ sm_pc' = "returned"
    /\ UNCHANGED <<file_paths, file_idx, urls>>

DispatchIdle ==
    /\ store_urls = <<>>
    /\ pc = <<>>
    /\ sem_value = CONCURRENCY_LIMIT
    /\ holders = {}
    /\ gets = <<>>
    /\ response = <<>>
    /\ html = <<>>
    /\ task_result = <<>>
    /\ printed = {}
    /\ main_pc = "parse_sitemaps"
    /\ results = <<>>
    /\ all_stores_data = <<>>

InitExtract == InitSitemaps /\ DispatchIdle

NextExtract ==
    \/ ReadSitemap /\ UNCHANGED dispatch_vars
    \/ SkipSitemap /\ UNCHANGED dispatch_vars
    \/ ReturnUrls /\ UNCHANGED dispatch_vars

SpecExtract == InitExtract /\ [][NextExtract]_vars

----------------------------------------------------------------------------
(* Claims *)

InFlight == {p \in Tasks : pc[p] = "fetching"}

\* C1: at every moment of a run, at most CONCURRENCY_LIMIT pipelines have
\* issued their GET and are still awaiting the response.
C1_ConcurrencyBound == Cardinality(InFlight) <= CONCURRENCY_LIMIT

\* C1 witness: every permit is in use by a fetch while another pipeline waits.
C1_Witness ==
    /\ Cardinality(InFlight) = CONCURRENCY_LIMIT
    /\ \E p \in Tasks : pc[p] = "waiting"

\* C2 as stated: a pipeline that is parsing or has finished parsing holds no
\* permit.
C2_NoPermitWhileParsing ==
    \A p \in Tasks : pc[p] \in {"parsing", "done"} => p \notin holders

\* C2 as amended: a pipeline holds a permit exactly while it is fetching or
\* parsing; it acquires it before the GET and gives it back only when the
\* whole pipeline has ended, so a finished pipeline holds none.
C2_PermitHeldThroughParse ==
    \A p \in Tasks : p \in holders <=> pc[p] \in {"fetching", "parsing"}

\* C2 witness: a pipeline is in field extraction and holds its permit while
\* another pipeline is kept waiting.
C2_Witness ==
    \E p, q \in Tasks :
        /\ pc[p] = "parsing" /\ p \in holders
        /\ pc[q] = "waiting" /\ sem_value = 0

\* The failure outcomes C3 names: connection error, timeout, DNS failure and
\* any status outside 2xx.
FailureKinds == ResponseKinds \ {"status_2xx"}

\* C3: every failed request ends the pipeline's fetch with None, after a
\* diagnostic naming the URL, with a single GET and no exception.
C3_FailuresBecomeNone ==
    \A p \in Tasks :
        response[p] \in FailureKinds =>
            /\ pc[p] = "done"
            /\ ~task_result[p].some
            /\ <<"fetch_error", store_urls[p]>> \in printed
            /\ gets[p] = 1

\* A page whose name element exists and holds more than whitespace.
RawNamePresent(page) ==
    /\ ~page.blank
    /\ page.name.some
    /\ \E i \in 1..Len(page.name.text) : page.name.text[i] # SP

FetchFailed(p) == response[p] \in FailureKinds
NameInvalid(p) == response[p] = "status_2xx" /\ ~RawNamePresent(html[p].page)
Survivors == {p \in Tasks : ~FetchFailed(p) /\ ~NameInvalid(p)}

OutputUrls == {all_stores_data[i].url : i \in 1..Len(all_stores_data)}

\* C4: once the batch is over it was not aborted, and the output holds
\* exactly one record for each URL that neither failed to fetch nor failed
\* the name validation: N - K - V records.
C4_PartialFailure ==
    main_pc # "gather" =>
        /\ main_pc \in {"saved", "no_data"}
        /\ OutputUrls = {store_urls[p] : p \in Survivors}
        /\ Len(all_stores_data) = Cardinality(Survivors)

Finalizing == main_pc \in {"saved", "no_data"}

\* C5: the filter and sort run only once every pipeline has returned, and
\* the collected results then hold one outcome per URL of the batch, each
\* URL fetched once.
C5_Barrier ==
    Finalizing =>
        /\ \A p \in Tasks : pc[p] = "done" /\ gets[p] = 1
        /\ Len(results) = Cardinality(BatchUrls)
        /\ {store_urls[i] : i \in Tasks} = BatchUrls
        /\ \A i \in Tasks :
               /\ results[i] = task_result[i]
               /\ results[i].some => results[i].data.url = store_urls[i]

\* C5 witness: the batch finished and was saved, one URL having yielded a
\* record and another nothing.
C5_Witness ==
    /\ main_pc = "saved"
    /\ \E i, j \in Tasks : results[i].some /\ ~results[j].some

\* C6: the final sequence is ascending by name under code point comparison.
C6_SortedByName ==
    \A i, j \in 1..Len(all_stores_data) :
        i < j => LexLeq(SortKey(all_stores_data[i]), SortKey(all_stores_data[j]))

\* C6 witness: two records were collected in descending order of name (an
\* upper-case name after a lower-case one) and saved in ascending order.
C6_Witness ==
    /\ main_pc = "saved"
    /\ results[1].some /\ results[2].some
    /\ LexLess(SortKey(results[2].data), SortKey(results[1].data))
    /\ all_stores_data[1] = results[2].data

\* C7: no record with an absent, empty or whitespace-only name is in the
\* final output; every fetched page with a real name is, whatever else it
\* lacks, and every fetched page without one is not.
C7_ValidationGate ==
    Finalizing =>
        /\ \A i \in 1..Len(all_stores_data) :
               /\ all_stores_data[i].name.some
               /\ \E k \in 1..Len(all_stores_data[i].name.text) :
                      all_stores_data[i].name.text[k] # SP
        /\ \A p \in Tasks :
               HtmlTruthy(html[p]) =>
                   (RawNamePresent(html[p].page) <=> store_urls[p] \in OutputUrls)

\* C7 witness: a page with nothing but a name was kept, and a page with
\* every field but a whitespace-only name was dropped.
C7_Witness ==
    /\ main_pc = "saved"
    /\ \E p, q \in Tasks :
           /\ html[p] = SomeHtml(BarePage(Some(Str_B_padded)))
           /\ store_urls[p] \in OutputUrls
           /\ html[q] = SomeHtml(FullPage(Some(Str_blank)))
           /\ store_urls[q] \notin OutputUrls

TaskOrders == { f \in [Tasks -> Tasks] : \A i, j \in Tasks : f[i] = f[j] => i = j }

\* C8: the final sequence is the same for every order in which the same
\* collected outcomes could have arrived.
C8_OrderIndependent ==
    main_pc = "saved" =>
        \A f \in TaskOrders : Finalize([i \in Tasks |-> results[f[i]]]) = all_stores_data

\* The loc texts of the well-formed files, trimmed, without the empty string.
TrimmedLocs ==
    UNION { { Strip(file_paths[n].entries[i].text.text) :
                i \in 1..Len(file_paths[n].entries) } :
            n \in {m \in 1..Len(file_paths) : file_paths[m].state = "ok"} }
        \ {<<>>}

\* C9: parse_sitemaps returns exactly the non-empty trimmed loc texts of the
\* well-formed files, and never the empty string.
C9_ExactTrimmedSet ==
    sm_pc = "returned" => urls = TrimmedLocs /\ <<>> \notin urls

\* C10: free permits plus permit holders is always CONCURRENCY_LIMIT, and
\* when the batch is over every pipeline was admitted and has finished and
\* every permit is free.
C10_PermitsAndProgress ==
    /\ sem_value + Cardinality(holders) = CONCURRENCY_LIMIT
    /\ main_pc # "gather" =>
           /\ \A p \in Tasks : pc[p] = "done" /\ gets[p] = 1
           /\ sem_value = CONCURRENCY_LIMIT

====
